---- MODULE Spec2Model ----
(***************************************************************************)
(* The store backend of ecommerce-app: the cart handlers (CartViewSet) and *)
(* the checkout handler (OrderViewSet.checkout) of store/views.py, with    *)
(* the serializers' validation (store/serializers.py), run by concurrent   *)
(* request workers against one database.                                   *)
(*                                                                         *)
(* Every database statement of a handler is one step; the arrival of a     *)
(* request, its input validation and its first statement form one step.    *)
(* Statements outside transaction.atomic() are autocommitted and no row    *)
(* is locked (the code takes no lock).  The statements inside it are       *)
(* collected in the request's write set (ws) and become visible together   *)
(* at commit; reads inside it see the committed rows (read committed).     *)
(***************************************************************************)
EXTENDS Integers, Sequences, FiniteSets

\* ---------------------------------------------------------------- bounds
NumUsers == 2
NumProducts == 2
NumRequests == 2
MaxStock == 2
MaxQty == 2
MaxItemId == 3
MaxOrders == 2
MaxRequests == 4

\* ------------------------------------------------------ program constants
MinAddressLen == 10
MinPhoneDigits == 10

Users == 1..NumUsers
Products == 1..NumProducts
Requests == 1..NumRequests
\* a product id that matches no Product row
UnknownProduct == NumProducts + 1
Prices == {350, 1000}
QtyInputs == {0 - 1} \cup (0..MaxQty)
AddrInputs == {MinAddressLen - 1, MinAddressLen}
PhoneInputs == {MinPhoneDigits - 1, MinPhoneDigits}

VARIABLES
    stock,        \* Product.stock, per product
    price,        \* Product.price, per product (in cents)
    cartExists,   \* whether the user has a Cart row
    cartItems,    \* the CartItem rows: [id, cart, product, quantity]
    nextItemId,   \* the next CartItem primary key
    orders,       \* the Order rows: [id, user, total_price]
    nextOrderId,  \* the next Order primary key
    orderItems,   \* the OrderItem rows: [order, product, product_price, quantity]
    req,          \* per worker: the request it handles, its position and locals
    started       \* the number of requests received so far

dbvars == <<stock, price, cartExists, cartItems, nextItemId, orders, nextOrderId, orderItems>>
vars == <<stock, price, cartExists, cartItems, nextItemId, orders, nextOrderId, orderItems, req, started>>

\* ------------------------------------------------------------ Product rows
InitStock(p) == IF p = 1 THEN MaxStock - 1 ELSE MaxStock
InitPrice(p) == IF p = 1 THEN 1000 ELSE 350

\* --------------------------------------------------------------- helpers
ItemsOf(items, u) == {i \in items : i.cart = u}

RECURSIVE SeqOfItems(_)
\* cart.items.all(): the rows of a queryset, in primary-key order
SeqOfItems(S) ==
    IF S = {} THEN <<>>
    ELSE LET m == CHOOSE x \in S : \A y \in S : x.id <= y.id
         IN <<m>> \o SeqOfItems(S \ {m})

RECURSIVE SumSubtotals(_, _)
\* sum of quantity x price over a sequence of cart items
SumSubtotals(s, pr) ==
    IF s = <<>> THEN 0
    ELSE Head(s).quantity * pr[Head(s).product] + SumSubtotals(Tail(s), pr)

\* Cart.total_price: recomputed from the current CartItems and live prices
CartTotalPrice(items, u, pr) == SumSubtotals(SeqOfItems(ItemsOf(items, u)), pr)

\* ------------------------------------------------------------- requests
EmptyWs == [hasOrder |-> FALSE, id |-> 0, total |-> 0, oitems |-> <<>>,
            written |-> {}, stock |-> [p \in Products |-> 0],
            price |-> [p \in Products |-> 0], deleted |-> {}]

IdleReq == [op |-> "idle", user |-> 0, pc |-> "idle", product |-> 0,
            quantity |-> 0, item |-> 0,
            items |-> <<>>, idx |-> 0, stockRead |-> 0,
            ws |-> EmptyWs, result |-> "none"]

\* the response is sent: the handler's locals are gone
Finish(op, res) == [IdleReq EXCEPT !.op = op, !.pc = "done", !.result = res]

Free(r) == req[r].pc \in {"idle", "done"}
Active(r) == ~Free(r)

\* a request is taken by the first free worker (the workers are alike)
Accepts(r) == started < MaxRequests /\ Free(r) /\ \A q \in Requests : q < r => Active(q)

\* one more request is received
Received == started' = started + 1

Init ==
    /\ stock = [p \in Products |-> InitStock(p)]
    /\ price = [p \in Products |-> InitPrice(p)]
    /\ cartExists = [u \in Users |-> FALSE]
    /\ cartItems = {}
    /\ nextItemId = 1
    /\ orders = {}
    /\ nextOrderId = 1
    /\ orderItems = {}
    /\ req = [r \in Requests |-> IdleReq]
    /\ started = 0

\* ------------------------------------------------- checkout: preconditions
\* CheckoutSerializer.validate_shipping_address, on the stripped length
AddressValid(len) == ~(len < MinAddressLen)

\* CheckoutSerializer.validate_phone, on the number of digit characters
PhoneValid(digits) == ~(digits < MinPhoneDigits)

\* (mutation) the Cart row is looked up before the input is validated
CheckoutPreconditionCartFirst(addr, phone, hasCart) ==
    IF ~hasCart THEN "NotFound"
    ELSE IF ~(AddressValid(addr) /\ PhoneValid(phone)) THEN "ValidationError"
    ELSE "none"

\* serializer.is_valid(), then Cart.objects.get(user=request.user)
CheckoutPrecondition(addr, phone, hasCart) ==
    IF ~(AddressValid(addr) /\ PhoneValid(phone)) THEN "ValidationError"
    ELSE IF ~hasCart THEN "NotFound"
    ELSE "none"

\* (mutation) the emptiness check is left out
CartIsEmptyUnchecked(rows) == FALSE

\* not cart.items.exists()
CartIsEmpty(rows) == rows = {}

\* item.quantity > item.product.stock
InsufficientStock(quantity, st) == quantity > st

\* (mutation) the error response of the stock check is built but not returned
AfterStockCheckNoReturn(insufficient, last) ==
    IF last THEN "co_order" ELSE "co_check"

\* where the stock check goes after an item: the error response returns
AfterStockCheck(insufficient, last) ==
    IF insufficient THEN "done" ELSE IF last THEN "co_order" ELSE "co_check"

\* (mutation) the stock goes down by one per line instead of by the quantity
NewStockByOne(st, quantity) == st - 1

\* item.product.stock -= item.quantity
NewStock(st, quantity) == st - quantity

TxPcs == {"co_order", "co_items", "co_item", "co_delete", "co_commit"}
PrePcs == {"co_exists", "co_query", "co_check"}

ActiveCheckouts == {q \in Requests : req[q].op = "checkout" /\ Active(q)}

\* a checkout request arrives: the serializer validates it and the handler
\* looks the user's Cart row up
CheckoutBegin(r, u, a, ph) ==
    /\ Accepts(r)
    /\ nextOrderId + Cardinality(ActiveCheckouts) <= MaxOrders
    /\ LET e == CheckoutPrecondition(a, ph, cartExists[u])
       IN req' = [req EXCEPT ![r] =
                    IF e = "none"
                    THEN [IdleReq EXCEPT !.op = "checkout", !.user = u, !.pc = "co_exists"]
                    ELSE Finish("checkout", e)]
    /\ UNCHANGED dbvars
    /\ Received

CheckoutStart(r) ==
    \E u \in Users, a \in AddrInputs, ph \in PhoneInputs : CheckoutBegin(r, u, a, ph)

\* (mutation) a checkout waits while another checkout is at the same
\* statement: two of them wait for each other
CheckoutExistsAfterOthers(r) ==
    /\ req[r].pc = "co_exists"
    /\ \A q \in Requests \ {r} : req[q].pc # "co_exists"
    /\ req' = [req EXCEPT ![r] = IF CartIsEmpty(ItemsOf(cartItems, req[r].user))
                                 THEN Finish("checkout", "EmptyCart")
                                 ELSE [@ EXCEPT !.pc = "co_query"]]
    /\ UNCHANGED dbvars
    /\ UNCHANGED started

\* if not cart.items.exists()
CheckoutExists(r) ==
    /\ req[r].pc = "co_exists"
    /\ req' = [req EXCEPT ![r] = IF CartIsEmpty(ItemsOf(cartItems, req[r].user))
                                 THEN Finish("checkout", "EmptyCart")
                                 ELSE [@ EXCEPT !.pc = "co_query"]]
    /\ UNCHANGED dbvars
    /\ UNCHANGED started

\* for item in cart.items.all(): the queryset is evaluated once
CheckoutCheckQuery(r) ==
    /\ req[r].pc = "co_query"
    /\ LET rows == SeqOfItems(ItemsOf(cartItems, req[r].user))
       IN req' = [req EXCEPT ![r] = [@ EXCEPT !.items = rows, !.idx = 1,
                      !.pc = IF rows = <<>> THEN "co_order" ELSE "co_check"]]
    /\ UNCHANGED dbvars
    /\ UNCHANGED started

\* one iteration: item.product is fetched, its stock compared
CheckoutCheckItem(r) ==
    /\ req[r].pc = "co_check"
    /\ LET it == req[r].items[req[r].idx]
           bad == InsufficientStock(it.quantity, stock[it.product])
           nxt == AfterStockCheck(bad, req[r].idx = Len(req[r].items))
       IN req' = [req EXCEPT ![r] =
                    IF nxt = "done" THEN Finish("checkout", "InsufficientStock")
                    ELSE [@ EXCEPT !.pc = nxt,
                                   !.idx = IF nxt = "co_check" THEN @ + 1 ELSE 1,
                                   !.items = IF nxt = "co_check" THEN @ ELSE <<>>,
                                   !.result = IF bad THEN "InsufficientStock" ELSE "none"]]
    /\ UNCHANGED dbvars
    /\ UNCHANGED started

\* ------------------------------------------- checkout: transaction body
\* a read inside the transaction sees the request's own writes
TxStock(ws, p) == IF p \in ws.written THEN ws.stock[p] ELSE stock[p]
TxPrice(ws, p) == IF p \in ws.written THEN ws.price[p] ELSE price[p]

\* Order.objects.create(user, total_price=cart.total_price, ...)
CheckoutCreateOrder(r) ==
    /\ req[r].pc = "co_order"
    /\ req' = [req EXCEPT ![r] = [@ EXCEPT !.pc = "co_items",
                 !.ws = [@ EXCEPT !.hasOrder = TRUE, !.id = nextOrderId,
                            !.total = CartTotalPrice(cartItems, req[r].user, price)]]]
    /\ nextOrderId' = nextOrderId + 1
    /\ UNCHANGED <<stock, price, cartExists, cartItems, nextItemId, orders, orderItems>>
    /\ UNCHANGED started

\* for item in cart.items.all(): a fresh queryset
CheckoutItemsQuery(r) ==
    /\ req[r].pc = "co_items"
    /\ LET rows == SeqOfItems(ItemsOf(cartItems, req[r].user))
       IN req' = [req EXCEPT ![r] = [@ EXCEPT !.items = rows, !.idx = 1,
                      !.pc = IF rows = <<>> THEN "co_delete" ELSE "co_item"]]
    /\ UNCHANGED dbvars
    /\ UNCHANGED started

\* one iteration: OrderItem.objects.create(...), then the stock update and
\* item.product.save(), which writes the whole Product row as it was fetched
CheckoutItem(r) ==
    /\ req[r].pc = "co_item"
    /\ LET it == req[r].items[req[r].idx]
           p == it.product
           w == req[r].ws
           last == req[r].idx = Len(req[r].items)
       IN req' = [req EXCEPT ![r] = [@ EXCEPT
                    !.pc = IF last THEN "co_delete" ELSE "co_item",
                    !.idx = IF last THEN 1 ELSE @ + 1,
                    !.items = IF last THEN <<>> ELSE @,
                    !.ws = [w EXCEPT
                        !.oitems = Append(@, [product |-> p,
                                              product_price |-> TxPrice(w, p),
                                              quantity |-> it.quantity]),
                        !.written = @ \cup {p},
                        !.stock = [@ EXCEPT ![p] = NewStock(TxStock(w, p), it.quantity)],
                        !.price = [@ EXCEPT ![p] = TxPrice(w, p)]]]]
    /\ UNCHANGED dbvars
    /\ UNCHANGED started

\* cart.items.all().delete(): the rows the statement finds
CheckoutDelete(r) ==
    /\ req[r].pc = "co_delete"
    /\ req' = [req EXCEPT ![r] = [@ EXCEPT !.pc = "co_commit",
                 !.ws = [@ EXCEPT !.deleted = {i.id : i \in ItemsOf(cartItems, req[r].user)}]]]
    /\ UNCHANGED dbvars
    /\ UNCHANGED started

\* what a transaction's write set makes of the committed rows
StockAfter(ws) == [p \in Products |-> IF p \in ws.written THEN ws.stock[p] ELSE stock[p]]
PriceAfter(ws) == [p \in Products |-> IF p \in ws.written THEN ws.price[p] ELSE price[p]]
CartItemsAfter(ws) == {i \in cartItems : i.id \notin ws.deleted}
OrdersAfter(ws, u) ==
    IF ws.hasOrder THEN orders \cup {[id |-> ws.id, user |-> u, total_price |-> ws.total]}
    ELSE orders
OrderItemsAfter(ws) ==
    orderItems \cup {[order |-> ws.id, line |-> n, product |-> ws.oitems[n].product,
                      product_price |-> ws.oitems[n].product_price,
                      quantity |-> ws.oitems[n].quantity] : n \in 1..Len(ws.oitems)}

ApplyWs(ws, u) ==
    /\ stock' = StockAfter(ws)
    /\ price' = PriceAfter(ws)
    /\ cartItems' = CartItemsAfter(ws)
    /\ orders' = OrdersAfter(ws, u)
    /\ orderItems' = OrderItemsAfter(ws)

\* leaving the atomic block normally commits; the 201 response follows
CheckoutCommit(r) ==
    /\ req[r].pc = "co_commit"
    /\ ApplyWs(req[r].ws, req[r].user)
    /\ req' = [req EXCEPT ![r] = Finish("checkout", "Created")]
    /\ UNCHANGED <<cartExists, nextItemId, nextOrderId>>
    /\ UNCHANGED started

\* (mutation) no atomic block: the statements already run stay
NotRolledBack(ws) == ws

\* leaving the atomic block by an exception rolls every statement back
RolledBack(ws) == EmptyWs

\* the request fails inside the transaction body (a database error, a
\* timeout, the worker dying)
CheckoutCrash(r) ==
    /\ req[r].pc \in TxPcs
    /\ ApplyWs(RolledBack(req[r].ws), req[r].user)
    /\ req' = [req EXCEPT ![r] = Finish("checkout", "ServerError")]
    /\ UNCHANGED <<cartExists, nextItemId, nextOrderId>>
    /\ UNCHANGED started

Checkout(r) ==
    \/ CheckoutStart(r)
    \/ CheckoutExists(r)
    \/ CheckoutCheckQuery(r)
    \/ CheckoutCheckItem(r)
    \/ CheckoutCreateOrder(r)
    \/ CheckoutItemsQuery(r)
    \/ CheckoutItem(r)
    \/ CheckoutDelete(r)
    \/ CheckoutCommit(r)
    \/ CheckoutCrash(r)

\* ------------------------------------------------- cart: add item (create)
ActiveAdds == {q \in Requests : req[q].op = "add" /\ Active(q)}

\* CartItemSerializer: validate_quantity, then validate (only when the
\* fields are valid): the product must exist, the quantity fit its stock
AddValidation(quantity, known, st) ==
    IF quantity < 1 THEN "ValidationError"
    ELSE IF ~known THEN "ValidationError"
    ELSE IF quantity > st THEN "InsufficientStock"
    ELSE "none"

\* (mutation) only the requested quantity is compared with the stock
AddExceedsStockRequestedOnly(existing, quantity, st) == quantity > st

\* cart_item.quantity += quantity; if cart_item.quantity > product.stock
AddExceedsStock(existing, quantity, st) == existing + quantity > st

\* instance.save(): UPDATE by primary key, INSERT when no row has it
SaveItem(rows, row) == {i \in rows : i.id # row.id} \cup {row}

\* an add request arrives: Cart.objects.get_or_create(user), then
\* serializer.is_valid()
AddBegin(r, u, p, q) ==
    /\ Accepts(r)
    /\ nextItemId + Cardinality(ActiveAdds) <= MaxItemId
    /\ cartExists' = [cartExists EXCEPT ![u] = TRUE]
    /\ LET known == p \in Products
           e == AddValidation(q, known, IF known THEN stock[p] ELSE 0)
       IN req' = [req EXCEPT ![r] =
                    IF e = "none"
                    THEN [IdleReq EXCEPT !.op = "add", !.user = u, !.product = p,
                                         !.quantity = q, !.pc = "add_product"]
                    ELSE Finish("add", e)]
    /\ UNCHANGED <<stock, price, cartItems, nextItemId, orders, nextOrderId, orderItems>>
    /\ Received

AddStart(r) ==
    \E u \in Users, p \in Products \cup {UnknownProduct}, q \in QtyInputs : AddBegin(r, u, p, q)

\* product = Product.objects.get(id=product_id): Product rows are never
\* deleted here, so the product the serializer found is found again
AddGetProduct(r) ==
    /\ req[r].pc = "add_product"
    /\ req' = [req EXCEPT ![r] = [@ EXCEPT !.pc = "add_item",
                                           !.stockRead = stock[req[r].product]]]
    /\ UNCHANGED dbvars
    /\ UNCHANGED started

\* CartItem.objects.get_or_create(cart, product, defaults={quantity}); for
\* a row that was there, the new quantity is checked before any write
AddGetOrCreate(r) ==
    /\ req[r].pc = "add_item"
    /\ LET u == req[r].user
           p == req[r].product
           found == {i \in cartItems : i.cart = u /\ i.product = p}
       IN IF found = {}
          THEN /\ cartItems' = cartItems \cup {[id |-> nextItemId, cart |-> u,
                                  product |-> p, quantity |-> req[r].quantity]}
               /\ nextItemId' = nextItemId + 1
               /\ req' = [req EXCEPT ![r] = Finish("add", "Created")]
          ELSE LET row == CHOOSE i \in found : \A j \in found : i.id <= j.id
               IN /\ req' = [req EXCEPT ![r] =
                       IF AddExceedsStock(row.quantity, req[r].quantity, req[r].stockRead)
                       THEN Finish("add", "InsufficientStock")
                       ELSE [@ EXCEPT !.pc = "add_save", !.item = row.id, !.stockRead = 0,
                                      !.quantity = row.quantity + req[r].quantity]]
                  /\ UNCHANGED <<cartItems, nextItemId>>
    /\ UNCHANGED <<stock, price, cartExists, orders, nextOrderId, orderItems>>
    /\ UNCHANGED started

\* the INSERT of a save() meets another row of the same cart and product:
\* the pair is unique, the statement fails with an IntegrityError
UniqueViolation(rows, row) ==
    /\ \A i \in rows : i.id # row.id
    /\ \E i \in rows : i.cart = row.cart /\ i.product = row.product

\* cart_item.save(), then the 201 response
AddSave(r) ==
    /\ req[r].pc = "add_save"
    /\ LET row == [id |-> req[r].item, cart |-> req[r].user,
                   product |-> req[r].product, quantity |-> req[r].quantity]
       IN IF UniqueViolation(cartItems, row)
          THEN /\ UNCHANGED cartItems
               /\ req' = [req EXCEPT ![r] = Finish("add", "ServerError")]
          ELSE /\ cartItems' = SaveItem(cartItems, row)
               /\ req' = [req EXCEPT ![r] = Finish("add", "Created")]
    /\ UNCHANGED <<stock, price, cartExists, nextItemId, orders, nextOrderId, orderItems>>
    /\ UNCHANGED started

AddItem(r) ==
    \/ AddStart(r)
    \/ AddGetProduct(r)
    \/ AddGetOrCreate(r)
    \/ AddSave(r)

\* ------------------------------------------------------ cart: update_item
\* if not item_id or not quantity
UpdateMissingField(item, quantity) == item = 0 \/ quantity = 0

\* (mutation) the comparison is off by one
UpdateExceedsStockOffByOne(quantity, st) == quantity > st + 1

\* if quantity > cart_item.product.stock
UpdateExceedsStock(quantity, st) == quantity > st

\* an update request arrives: the required fields, then
\* CartItem.objects.get(id=item_id, cart__user=request.user)
UpdateBegin(r, u, i, q) ==
    /\ Accepts(r)
    /\ LET found == {x \in cartItems : x.id = i /\ x.cart = u}
       IN req' = [req EXCEPT ![r] =
            IF UpdateMissingField(i, q) THEN Finish("update", "ValidationError")
            ELSE IF found = {} THEN Finish("update", "NotFound")
            ELSE [IdleReq EXCEPT !.op = "update", !.user = u, !.item = i, !.quantity = q,
                                 !.product = (CHOOSE x \in found : TRUE).product,
                                 !.pc = "upd_check"]]
    /\ UNCHANGED dbvars
    /\ Received

UpdateStart(r) ==
    \E u \in Users, i \in 0..MaxItemId, q \in QtyInputs : UpdateBegin(r, u, i, q)

\* cart_item.product is fetched and its stock compared
UpdateCheck(r) ==
    /\ req[r].pc = "upd_check"
    /\ req' = [req EXCEPT ![r] =
            IF UpdateExceedsStock(req[r].quantity, stock[req[r].product])
            THEN Finish("update", "InsufficientStock")
            ELSE [@ EXCEPT !.pc = "upd_save"]]
    /\ UNCHANGED dbvars
    /\ UNCHANGED started

\* cart_item.quantity = quantity; cart_item.save()
UpdateSave(r) ==
    /\ req[r].pc = "upd_save"
    /\ LET row == [id |-> req[r].item, cart |-> req[r].user,
                   product |-> req[r].product, quantity |-> req[r].quantity]
       IN IF UniqueViolation(cartItems, row)
          THEN /\ UNCHANGED cartItems
               /\ req' = [req EXCEPT ![r] = Finish("update", "ServerError")]
          ELSE /\ cartItems' = SaveItem(cartItems, row)
               /\ req' = [req EXCEPT ![r] = Finish("update", "OK")]
    /\ UNCHANGED <<stock, price, cartExists, nextItemId, orders, nextOrderId, orderItems>>
    /\ UNCHANGED started

UpdateItem(r) ==
    \/ UpdateStart(r)
    \/ UpdateCheck(r)
    \/ UpdateSave(r)

\* ------------------------------------------------------ cart: remove_item
\* (mutation) the item is looked up by its id alone, in any user's cart
RemoveBeginAnyCart(r, u, i) ==
    /\ Accepts(r)
    /\ LET found == {x \in cartItems : x.id = i}
       IN req' = [req EXCEPT ![r] =
            IF i = 0 THEN Finish("remove", "ValidationError")
            ELSE IF found = {} THEN Finish("remove", "NotFound")
            ELSE [IdleReq EXCEPT !.op = "remove", !.user = u, !.item = i,
                                 !.pc = "rem_delete"]]
    /\ UNCHANGED dbvars
    /\ Received

\* a remove request arrives: the required field, then
\* CartItem.objects.get(id=item_id, cart__user=request.user)
RemoveBegin(r, u, i) ==
    /\ Accepts(r)
    /\ LET found == {x \in cartItems : x.id = i /\ x.cart = u}
       IN req' = [req EXCEPT ![r] =
            IF i = 0 THEN Finish("remove", "ValidationError")
            ELSE IF found = {} THEN Finish("remove", "NotFound")
            ELSE [IdleReq EXCEPT !.op = "remove", !.user = u, !.item = i,
                                 !.pc = "rem_delete"]]
    /\ UNCHANGED dbvars
    /\ Received

RemoveStart(r) ==
    \E u \in Users, i \in 0..MaxItemId : RemoveBegin(r, u, i)

\* cart_item.delete()
RemoveDelete(r) ==
    /\ req[r].pc = "rem_delete"
    /\ cartItems' = {i \in cartItems : i.id # req[r].item}
    /\ req' = [req EXCEPT ![r] = Finish("remove", "OK")]
    /\ UNCHANGED <<stock, price, cartExists, nextItemId, orders, nextOrderId, orderItems>>
    /\ UNCHANGED started

RemoveItem(r) ==
    \/ RemoveStart(r)
    \/ RemoveDelete(r)

\* ----------------------------------------------- cart: clear and list
\* (mutation) the Cart row is looked up but not created when missing
ClearWithoutCreate(u) ==
    /\ started < MaxRequests
    /\ cartItems' = {i \in cartItems : i.cart # u}
    /\ UNCHANGED <<stock, price, cartExists, nextItemId, orders, nextOrderId, orderItems, req>>
    /\ Received

\* Cart.objects.get_or_create(user); cart.items.all().delete()
Clear(u) ==
    /\ started < MaxRequests
    /\ cartExists' = [cartExists EXCEPT ![u] = TRUE]
    /\ cartItems' = {i \in cartItems : i.cart # u}
    /\ UNCHANGED <<stock, price, nextItemId, orders, nextOrderId, orderItems, req>>
    /\ Received

\* Cart.objects.get_or_create(user)
List(u) ==
    /\ started < MaxRequests
    /\ cartExists' = [cartExists EXCEPT ![u] = TRUE]
    /\ UNCHANGED <<stock, price, cartItems, nextItemId, orders, nextOrderId, orderItems, req>>
    /\ Received

\* ------------------------------------------------------------ admin site
\* (mutation) the lines of past orders follow the product's price
AdminSetPriceCascading(p) ==
    /\ started < MaxRequests
    /\ \E v \in Prices \ {price[p]} :
          /\ price' = [price EXCEPT ![p] = v]
          /\ orderItems' = {IF oi.product = p THEN [oi EXCEPT !.product_price = v] ELSE oi
                               : oi \in orderItems}
    /\ UNCHANGED <<stock, cartExists, cartItems, nextItemId, orders, nextOrderId, req>>
    /\ Received

\* ProductAdmin: the price of a product is edited
AdminSetPrice(p) ==
    /\ started < MaxRequests
    /\ \E v \in Prices \ {price[p]} : price' = [price EXCEPT ![p] = v]
    /\ UNCHANGED <<stock, cartExists, cartItems, nextItemId, orders, nextOrderId, orderItems, req>>
    /\ Received

Next ==
    \/ \E r \in Requests : Checkout(r)
    \/ \E r \in Requests : AddItem(r)
    \/ \E r \in Requests : UpdateItem(r)
    \/ \E r \in Requests : RemoveItem(r)
    \/ \E u \in Users : Clear(u)
    \/ \E u \in Users : List(u)
    \/ \E p \in Products : AdminSetPrice(p)

Spec == Init /\ [][Next]_vars

\* requests served one at a time: a step of a worker while every other
\* worker is free, a one-statement request while all workers are free
Quiet(r) == \A q \in Requests \ {r} : Free(q)

NextSeq ==
    \/ \E r \in Requests : Quiet(r) /\ CheckoutStart(r)
    \/ \E r \in Requests : Quiet(r) /\ CheckoutExists(r)
    \/ \E r \in Requests : Quiet(r) /\ CheckoutCheckQuery(r)
    \/ \E r \in Requests : Quiet(r) /\ CheckoutCheckItem(r)
    \/ \E r \in Requests : Quiet(r) /\ CheckoutCreateOrder(r)
    \/ \E r \in Requests : Quiet(r) /\ CheckoutItemsQuery(r)
    \/ \E r \in Requests : Quiet(r) /\ CheckoutItem(r)
    \/ \E r \in Requests : Quiet(r) /\ CheckoutDelete(r)
    \/ \E r \in Requests : Quiet(r) /\ CheckoutCommit(r)
    \/ \E r \in Requests : Quiet(r) /\ CheckoutCrash(r)
    \/ \E r \in Requests : Quiet(r) /\ AddStart(r)
    \/ \E r \in Requests : Quiet(r) /\ AddGetProduct(r)
    \/ \E r \in Requests : Quiet(r) /\ AddGetOrCreate(r)
    \/ \E r \in Requests : Quiet(r) /\ AddSave(r)
    \/ \E r \in Requests : Quiet(r) /\ UpdateStart(r)
    \/ \E r \in Requests : Quiet(r) /\ UpdateCheck(r)
    \/ \E r \in Requests : Quiet(r) /\ UpdateSave(r)
    \/ \E r \in Requests : Quiet(r) /\ RemoveStart(r)
    \/ \E r \in Requests : Quiet(r) /\ RemoveDelete(r)
    \/ \E u \in Users : Quiet(0) /\ Clear(u)
    \/ \E u \in Users : Quiet(0) /\ List(u)
    \/ \E p \in Products : Quiet(0) /\ AdminSetPrice(p)

SpecSeq == Init /\ [][NextSeq]_vars

\* the next statement of the request worker r is handling
WorkerStep(r) ==
    \/ CheckoutExists(r) \/ CheckoutCheckQuery(r) \/ CheckoutCheckItem(r)
    \/ CheckoutCreateOrder(r) \/ CheckoutItemsQuery(r) \/ CheckoutItem(r)
    \/ CheckoutDelete(r) \/ CheckoutCommit(r)
    \/ AddGetProduct(r) \/ AddGetOrCreate(r) \/ AddSave(r)
    \/ UpdateCheck(r) \/ UpdateSave(r)
    \/ RemoveDelete(r)

\* every worker that is handling a request keeps running
SpecFair == Init /\ [][Next]_vars /\ \A r \in Requests : WF_vars(WorkerStep(r))

\* ======================================================== properties
RECURSIVE SumQuantity(_)
SumQuantity(S) ==
    IF S = {} THEN 0
    ELSE LET x == CHOOSE y \in S : TRUE IN x.quantity + SumQuantity(S \ {x})

RECURSIVE SumValue(_, _)
SumValue(S, pr) ==
    IF S = {} THEN 0
    ELSE LET x == CHOOSE y \in S : TRUE
         IN x.quantity * pr[x.product] + SumValue(S \ {x}, pr)

\* the step is worker r's commit / worker r's failure inside the transaction
IsCommit(r) ==
    req[r].pc = "co_commit" /\ req'[r].pc = "done" /\ req'[r].result = "Created"
IsCrash(r) ==
    req[r].pc \in TxPcs /\ req'[r].pc = "done" /\ req'[r].result = "ServerError"
\* the step is a step of worker r's running request
StepOf(r) == Active(r) /\ req'[r] # req[r]

RECURSIVE SumLines(_)
\* the sum of product_price x quantity over a set of OrderItem rows
SumLines(S) ==
    IF S = {} THEN 0
    ELSE LET x == CHOOSE y \in S : TRUE
         IN x.product_price * x.quantity + SumLines(S \ {x})

PreconditionErrors == {"ValidationError", "NotFound", "EmptyCart", "InsufficientStock"}

\* C1: in every reachable state every Product's stock is >= 0.
C1_StockNeverNegative == \A p \in Products : stock[p] >= 0

\* C2: of the checkouts by different users whose carts hold quantity 1 of a
\* product with initial stock S, exactly S succeed: as long as every ordered
\* quantity is positive, no more than S users hold an Order with one unit of it.
BuyersOfOne(p) ==
    {u \in Users : \E o \in orders, oi \in orderItems :
        o.user = u /\ oi.order = o.id /\ oi.product = p /\ oi.quantity = 1}
C2_ExactlyStockManySucceed ==
    (\A oi \in orderItems : oi.quantity >= 1)
        => \A p \in Products : Cardinality(BuyersOfOne(p)) <= InitStock(p)

\* C3: checkout is atomic.  A step inside the transaction body other than the
\* commit, a failure inside it included, changes no committed row; an Order, an
\* OrderItem or a stock change becomes visible only in a commit step, and then
\* the new Order, all the OrderItems the body created, all its stock writes and
\* the deletion of the cart rows become visible together.  No OrderItem is
\* without its Order.
CommitComplete(r) ==
    LET w == req[r].ws
        newO == orders' \ orders
        newI == orderItems' \ orderItems
    IN /\ orders \subseteq orders' /\ orderItems \subseteq orderItems'
       /\ Cardinality(newO) = 1
       /\ \A o \in newO : o.user = req[r].user /\ \A i \in newI : i.order = o.id
       /\ Cardinality(newI) = Len(w.oitems)
       /\ \A p \in Products : stock'[p] # stock[p] => \E i \in newI : i.product = p
       /\ \A i \in newI : stock'[i.product] = w.stock[i.product]
       /\ \A i \in cartItems' : i.id \notin w.deleted
C3_CheckoutAtomic ==
    /\ [](\A oi \in orderItems : \E o \in orders : o.id = oi.order)
    /\ [][/\ \A r \in Requests :
               (req[r].pc \in TxPcs /\ StepOf(r) /\ ~IsCommit(r))
                   => UNCHANGED <<stock, price, cartItems, orders, orderItems>>
          /\ (orders' # orders \/ orderItems' # orderItems \/ stock' # stock)
                   => \E r \in Requests : IsCommit(r) /\ CommitComplete(r)]_vars
\* a checkout failed inside its transaction after the Order was inserted,
\* and no Order is visible
C3_Witness ==
    /\ \E r \in Requests : req[r].op = "checkout" /\ req[r].result = "ServerError"
    /\ nextOrderId > 1
    /\ orders = {}

\* C4: for every product, initial stock minus current stock equals the sum
\* of the quantities of the committed OrderItems of that product.
C4_StockConservation ==
    \A p \in Products :
        InitStock(p) - stock[p] = SumQuantity({oi \in orderItems : oi.product = p})

\* C5: a checkout that finds the cart without items fails with EmptyCart and
\* creates no Order and no OrderItem.
C5_EmptyCartFails ==
    [][\A r \in Requests :
          (req[r].op = "checkout" /\ req[r].pc = "co_exists" /\ StepOf(r)
             /\ ItemsOf(cartItems, req[r].user) = {})
          => /\ req'[r].pc = "done" /\ req'[r].result = "EmptyCart"
             /\ UNCHANGED <<orders, orderItems, nextOrderId>>]_vars
C5_Witness ==
    \E r \in Requests : req[r].op = "checkout" /\ req[r].result = "EmptyCart"

\* C6: the checkout preconditions are evaluated in order.  Invalid address or
\* phone gives ValidationError whatever the cart; valid input with no Cart row
\* gives NotFound; only with a Cart row is emptiness looked at, and an empty
\* cart gives EmptyCart before any stock is compared; InsufficientStock is
\* reported only from the stock check, which runs only after all of these.
C6_PreconditionOrder ==
    /\ [](\A r \in Requests :
            req[r].pc \in PrePcs => req[r].op = "checkout" /\ cartExists[req[r].user])
    /\ [][/\ \A r \in Requests, u \in Users, a \in AddrInputs, ph \in PhoneInputs :
               CheckoutBegin(r, u, a, ph) =>
                   /\ (a < MinAddressLen \/ ph < MinPhoneDigits)
                        => req'[r].pc = "done" /\ req'[r].result = "ValidationError"
                   /\ (a >= MinAddressLen /\ ph >= MinPhoneDigits /\ ~cartExists[u])
                        => req'[r].pc = "done" /\ req'[r].result = "NotFound"
                   /\ (a >= MinAddressLen /\ ph >= MinPhoneDigits /\ cartExists[u])
                        => req'[r].pc = "co_exists"
          /\ \A r \in Requests :
               (req[r].pc = "co_exists" /\ StepOf(r)) =>
                   IF ItemsOf(cartItems, req[r].user) = {}
                   THEN req'[r].pc = "done" /\ req'[r].result = "EmptyCart"
                   ELSE req'[r].pc = "co_query"
          /\ \A r \in Requests :
               (req'[r] # req[r] /\ req'[r].op = "checkout"
                  /\ req'[r].result = "InsufficientStock")
               => /\ req[r].pc = "co_check"
                  /\ req[r].items[req[r].idx].quantity
                        > stock[req[r].items[req[r].idx].product]]_vars
\* invalid input was answered with ValidationError although no Cart row exists
C6_Witness ==
    /\ \E r \in Requests : req[r].op = "checkout" /\ req[r].result = "ValidationError"
    /\ \A u \in Users : ~cartExists[u]

\* C7: a checkout that fails a precondition changes nothing: the request's
\* arrival and every step of its precondition phase leave every row as it
\* was, and the failure ends the request.
C7_FailedCheckoutChangesNothing ==
    [][/\ \A r \in Requests, u \in Users, a \in AddrInputs, ph \in PhoneInputs :
            CheckoutBegin(r, u, a, ph) => UNCHANGED dbvars
       /\ \A r \in Requests :
            (req[r].pc \in PrePcs /\ StepOf(r)) => UNCHANGED dbvars
       /\ \A r \in Requests :
            (req'[r] # req[r] /\ req'[r].op = "checkout"
               /\ req'[r].result \in PreconditionErrors)
            => req'[r].pc = "done" /\ UNCHANGED dbvars]_vars
\* a checkout failed the stock check while rows exist that it left alone
C7_Witness ==
    /\ \E r \in Requests : req[r].op = "checkout" /\ req[r].result = "InsufficientStock"
    /\ cartItems # {}

\* C8: a checkout served alone, when it commits, creates one Order of the
\* user whose total_price is the sum of quantity x current price over the cart
\* rows, one OrderItem per cart row with the row's product and quantity and the
\* product's current price, lowers each product's stock by exactly the quantity
\* the cart holds of it (other products keep theirs), and leaves the cart empty.
C8_CheckoutPostState ==
    [][\A r \in Requests : IsCommit(r) =>
          LET u == req[r].user
              rows == ItemsOf(cartItems, u)
              newO == orders' \ orders
              newI == orderItems' \ orderItems
          IN /\ Cardinality(newO) = 1
             /\ \A o \in newO : /\ o.user = u
                                /\ o.total_price = SumValue(rows, price)
                                /\ \A oi \in newI : oi.order = o.id
             /\ Cardinality(newI) = Cardinality(rows)
             /\ \A i \in rows : \E oi \in newI :
                   /\ oi.product = i.product
                   /\ oi.quantity = i.quantity
                   /\ oi.product_price = price[i.product]
             /\ \A p \in Products :
                   stock'[p] = stock[p] - SumQuantity({i \in rows : i.product = p})
             /\ ItemsOf(cartItems', u) = {}
             /\ price' = price]_vars
\* an Order with two lines is committed, the stock of both products is lower
\* than it was, and the buyer's cart is empty
C8_Witness ==
    \E o \in orders :
        /\ Cardinality({oi \in orderItems : oi.order = o.id}) = 2
        /\ \A p \in Products : stock[p] < InitStock(p)
        /\ ItemsOf(cartItems, o.user) = {}

\* C9: stock changes only in the commit step of a checkout; the arrival and
\* every step of an add, update or remove request, and clear, leave every
\* product's stock unchanged, whether the request succeeds or fails.
C9_CartNeverChangesStock ==
    [][/\ stock' # stock => \E r \in Requests : IsCommit(r)
       /\ \A r \in Requests :
            (req'[r] # req[r] /\ req'[r].op \in {"add", "update", "remove"})
                => stock' = stock
       /\ cartItems' # cartItems /\ (\A r \in Requests : ~IsCommit(r))
                => stock' = stock]_vars
\* cart rows were written and removed by cart requests, and the stock is what
\* it was at the start
C9_Witness ==
    /\ \E r \in Requests : req[r].op = "remove" /\ req[r].result = "OK"
    /\ \E r \in Requests : req[r].op \in {"add", "update"} /\ req[r].result \in {"Created", "OK"}
    /\ \A p \in Products : stock[p] = InitStock(p)

\* C10: add_item is all-or-nothing on InsufficientStock (requests served one
\* at a time): when the quantity already in the cart for the product (or 0)
\* plus the requested quantity exceeds the product's stock, the request ends
\* with InsufficientStock and the cart rows are as before; an add request
\* that ends with InsufficientStock has written no cart row, and a row an add
\* request writes never exceeds the stock.
ExistingQty(u, p) ==
    LET found == {i \in cartItems : i.cart = u /\ i.product = p}
    IN IF found = {} THEN 0 ELSE (CHOOSE i \in found : TRUE).quantity
C10_AddAllOrNothing ==
    [][/\ \A r \in Requests, u \in Users, p \in Products, q \in 1..MaxQty :
            (AddBegin(r, u, p, q) /\ ExistingQty(u, p) + q > stock[p]) =>
                /\ UNCHANGED cartItems
                /\ IF q > stock[p]
                   THEN req'[r].pc = "done" /\ req'[r].result = "InsufficientStock"
                   ELSE req'[r].pc = "add_product"
       /\ \A r \in Requests :
            (req[r].pc \in {"add_product", "add_item"} /\ StepOf(r)
               /\ ExistingQty(req[r].user, req[r].product) + req[r].quantity
                    > stock[req[r].product]) =>
                /\ UNCHANGED cartItems
                /\ req[r].pc = "add_item" =>
                       req'[r].pc = "done" /\ req'[r].result = "InsufficientStock"
       /\ \A r \in Requests :
            (req'[r] # req[r] /\ req'[r].op = "add" /\ req'[r].result = "InsufficientStock")
                => UNCHANGED cartItems
       /\ \A r \in Requests :
            (req[r].op = "add" /\ StepOf(r))
                => \A i \in cartItems' \ cartItems : i.quantity <= stock[i.product]]_vars
\* an add request for a product already in the cart ended with
\* InsufficientStock, and the row has the quantity it had
C10_Witness ==
    \E r \in Requests :
        /\ req[r].op = "add" /\ req[r].result = "InsufficientStock"
        /\ \E i \in cartItems : i.product = 1 /\ i.quantity = InitStock(1)
        /\ Cardinality(cartItems) = 1
        /\ started = 2

\* C11: in every reachable state every stored CartItem has quantity >= 1.
C11_QuantityAtLeastOne == \A i \in cartItems : i.quantity >= 1

\* C12: at most one CartItem per (cart, product) pair, and an add for a
\* product already in the cart inserts no row and raises the quantity of the
\* existing row: the write of the summed quantity leaves one row for the pair,
\* with a quantity above the one the row had before the write (the requested
\* amount is at least 1), also when add requests interleave.
C12_OneRowPerProductIncrement ==
    /\ [](\A i, j \in cartItems :
             (i.cart = j.cart /\ i.product = j.product) => i.id = j.id)
    /\ [][\A r \in Requests :
             (req[r].pc = "add_save" /\ StepOf(r)) =>
                 \A old \in cartItems :
                     (old.cart = req[r].user /\ old.product = req[r].product) =>
                         \A new \in cartItems' :
                             (new.cart = old.cart /\ new.product = old.product)
                                 => new.id = old.id /\ new.quantity > old.quantity]_vars

\* C15: an add request whose product_id matches no Product ends with NotFound
\* and leaves the cart rows unchanged.
C15_UnknownProductNotFound ==
    [][\A r \in Requests, u \in Users, q \in 1..MaxQty :
          AddBegin(r, u, UnknownProduct, q) =>
              /\ req'[r].pc = "done" /\ req'[r].result = "NotFound"
              /\ UNCHANGED cartItems]_vars

\* C19: for every committed Order, total_price equals the sum of
\* product_price x quantity over the Order's OrderItems.
C19_OrderTotalMatchesItems ==
    \A o \in orders :
        o.total_price = SumLines({oi \in orderItems : oi.order = o.id})

\* C20: every CartItem a committed checkout deletes has an OrderItem in that
\* checkout's Order with the same product and quantity.
C20_NoLineDroppedUnordered ==
    [][\A r \in Requests : IsCommit(r) =>
          \A i \in cartItems \ cartItems' :
              \E oi \in orderItems' \ orderItems :
                  oi.product = i.product /\ oi.quantity = i.quantity]_vars

\* the cart rows a step writes: the rows that are new or have new contents
WrittenRows == cartItems' \ cartItems

C14_OrderSnapshotsFrozen ==
    [][/\ orders \subseteq orders'
       /\ orderItems \subseteq orderItems'
       /\ \A o \in orders' \ orders : \A old \in orders : old.id # o.id
       /\ \A oi \in orderItems' \ orderItems : \A old \in orderItems : old.order # oi.order
       /\ (price' # price /\ \A r \in Requests : ~IsCommit(r))
            => UNCHANGED <<orders, orderItems>>]_vars
\* an order line still carries the price it was bought at, which is no
\* longer the price of the product
C14_Witness ==
    \E oi \in orderItems :
        /\ oi.product_price # price[oi.product]
        /\ \E o \in orders : o.id = oi.order /\ o.total_price = oi.product_price * oi.quantity

CartOps == {"add", "update", "remove"}

\* C16: carts are isolated per user.  The arrival and every step of an add,
\* update or remove request of user U, and clear by U, leave the rows of every
\* other user's cart as they are; an update or remove request proceeds only on
\* an item of the requesting user's cart, and one that names an item of
\* another user's cart ends with NotFound.
C16_CartsIsolated ==
    [][/\ \A r \in Requests :
            (Free(r) /\ req'[r] # req[r] /\ req'[r].op \in CartOps)
                => /\ UNCHANGED cartItems
                   /\ req'[r].pc \in {"upd_check", "rem_delete"} =>
                         \E x \in cartItems : x.id = req'[r].item /\ x.cart = req'[r].user
       /\ \A r \in Requests :
            (StepOf(r) /\ req[r].op \in CartOps) =>
                \A v \in Users \ {req[r].user} :
                    ItemsOf(cartItems', v) = ItemsOf(cartItems, v)
       /\ \A u \in Users :
            Clear(u) => \A v \in Users \ {u} : ItemsOf(cartItems', v) = ItemsOf(cartItems, v)
       /\ \A r \in Requests, u \in Users :
            \A x \in {y \in cartItems : y.cart # u} :
                /\ RemoveBegin(r, u, x.id)
                      => req'[r].pc = "done" /\ req'[r].result = "NotFound"
                /\ \A q \in QtyInputs \ {0} :
                      UpdateBegin(r, u, x.id, q)
                          => req'[r].pc = "done" /\ req'[r].result = "NotFound"]_vars
\* an update or remove request was answered NotFound while both users' carts
\* hold rows
C16_Witness ==
    /\ \E r \in Requests : req[r].op \in {"update", "remove"} /\ req[r].result = "NotFound"
    /\ \A u \in Users : ItemsOf(cartItems, u) # {}

\* C17: clear never fails and is idempotent.  As long as requests are
\* received, a clear request of any user can be served, whatever the state
\* (no Cart row, an empty cart, a cart with rows); it leaves the user with a
\* Cart row and no items and touches nothing else; and served in a state where
\* the user has a Cart row and no items, as a clear leaves it, it changes no
\* row at all.
C17_ClearIdempotent ==
    /\ [](started < MaxRequests => \A u \in Users : ENABLED Clear(u))
    /\ [][\A u \in Users : Clear(u) =>
             /\ cartExists'[u]
             /\ ItemsOf(cartItems', u) = {}
             /\ \A v \in Users \ {u} :
                   cartExists'[v] = cartExists[v] /\ ItemsOf(cartItems', v) = ItemsOf(cartItems, v)
             /\ UNCHANGED <<stock, price, orders, orderItems, nextItemId, nextOrderId, req>>
             /\ (cartExists[u] /\ ItemsOf(cartItems, u) = {}) => UNCHANGED dbvars]_vars
\* an add request put a row in a cart, and after two more requests, none of
\* them a remove or a checkout, no row is left
C17_Witness ==
    /\ req[1].op = "add" /\ req[1].result = "Created"
    /\ \A r \in Requests \ {1} : req[r].op = "idle"
    /\ cartItems = {} /\ nextItemId > 1
    /\ started = 3
    /\ price = [p \in Products |-> InitPrice(p)]

CheckoutOutcomes == {"Created", "ServerError"} \cup PreconditionErrors

====
